---- MODULE Spec2Model ----
(***************************************************************************)
(* Dependency ordering of calculated items (coffee/utils/calc_helpers.py)  *)
(* and the CSV bulk workflow that uses it                                  *)
(* (coffee/utils/workflow_helpers.py).                                     *)
(*                                                                         *)
(* A table (pandas DataFrame) is a record [cols, rows]: the set of its     *)
(* column names and the sequence of its rows in table order.  Item names   *)
(* are unique within a batch and are only ever compared for equality, so   *)
(* the rows are named 1..n in table order; 0 is a name that no row of the  *)
(* batch carries (a dangling reference such as [UNKNOWN]).  A formula is   *)
(* either null (NaN) or a text, modelled by the sequence of its tokens:    *)
(* token k >= 0 is the bracketed name "[k]" that the pattern matches,      *)
(* token Other is any text the pattern does not match ("[abc]", "[]",      *)
(* " + 1").                                                                *)
(***************************************************************************)
EXTENDS Integers, Sequences, FiniteSets, TLC

\* Largest number of rows of a batch / keys of a graph.
MaxRows == 3
\* Largest number of formula tokens in a table (a null formula counts as one).
MaxRefs == 2
\* Largest number of dependency-list entries in a graph handed to the sorter.
MaxDeps == 3
\* Largest number of rows of a CSV file handed to process_csv_generic.
MaxCsvRows == 2
\* Largest number of dependency-list entries in a graph, and of entries of
\* a start list, handed to iterative_topological_sort on its own.
MaxEdges == 2
MaxStarts == 2
\* Largest number of rows of a table handed to the upload functions.
MaxUploadRows == 6
\* Largest number of characters of a formula text handed to
\* extract_formula_children.
MaxChars == 6
\* Largest number of rows of a table whose item names are in a column other
\* than 'name'.
MaxItemRows == 2
\* Largest number of rows of a table that may already have a column
\* calculation_status.
MaxFrameRows == 2
\* Largest value of the retries argument of get_data (its default is 3).
MaxRetries == 4
\* settings.CONCURRENT_REQUEST_LIMIT
CONCURRENT_REQUESTS == 4

\* A name that no row of the batch carries.
Unknown == 0
\* Formula text that the name pattern does not match.
Other == -1

VARIABLES
    df,         \* the caller's table, as the callee leaves it
    input,      \* the argument as it was passed in: the table, the start list
    ret,        \* the value sort_data_topological returned
    raised,     \* the exception that left the running function, or "none"
    pc,         \* position of the running procedure
    rawGraph,   \* the graph handed to prune_missing_from_graph
    graph,      \* name_graph: graph[k] is the dependency list of key k
    starts,     \* the list find_topological_graph_starts returned
    st,         \* locals of iterative_topological_sort: q, seen, stack, order
    reverse,    \* the reverse argument of iterative_topological_sort
    result,     \* the list iterative_topological_sort returned
    mt,         \* upload_multithreaded argument of process_csv_generic
    cursor,     \* position of the upload's loop over the rows of df
    thr,        \* per row of df: how far the operation on it has got
    permits,    \* value of the semaphore
    wire        \* what get_data did so far: the requests sent, the sleeps

vars == <<df, input, ret, raised, pc, rawGraph, graph, starts, st, reverse,
          result, mt, cursor, thr, permits, wire>>

----------------------------------------------------------------------------
\* Sequence helpers

Range(s) == { s[i] : i \in 1..Len(s) }

Last(s) == s[Len(s)]

Front(s) == SubSeq(s, 1, Len(s) - 1)

Reverse(s) == [ i \in 1..Len(s) |-> s[Len(s) + 1 - i] ]

RECURSIVE SeqsOfLen(_, _)
SeqsOfLen(S, k) ==
    IF k = 0 THEN { <<>> }
    ELSE UNION { { Append(s, x) : x \in S } : s \in SeqsOfLen(S, k - 1) }

\* Index of the first occurrence of x in s, 0 when absent.
IndexOf(s, x) ==
    IF x \in Range(s) THEN CHOOSE i \in 1..Len(s) :
                               s[i] = x /\ \A j \in 1..(i - 1) : s[j] # x
    ELSE 0

Count(s, x) == Cardinality({ i \in 1..Len(s) : s[i] = x })

\* n lists over S holding at most e entries in all.
RECURSIVE ListsWithin(_, _, _)
ListsWithin(S, n, e) ==
    IF n = 0 THEN { <<>> }
    ELSE UNION { { Append(t, f) : t \in ListsWithin(S, n - 1, e - w),
                                  f \in SeqsOfLen(S, w) }
                 : w \in 0..e }

----------------------------------------------------------------------------
\* extract_formula_children: the pattern \[([A-Z0-9_]+)\] applied by findall
\* to the text of a formula keeps the bracketed names, in order, repeats
\* included, and drops everything else.
RECURSIVE FindAll(_)
FindAll(text) ==
    IF text = <<>> THEN <<>>
    ELSE IF Head(text) = Other THEN FindAll(Tail(text))
         ELSE <<Head(text)>> \o FindAll(Tail(text))

\* The children cell of one row: [] unless the row is flagged, else what
\* findall returns for its formula; findall of a null formula is null (NaN).
Children(row) ==
    IF ~row.is_calculation THEN [null |-> FALSE, list |-> <<>>]
    ELSE IF row.formula.null THEN [null |-> TRUE, list |-> <<>>]
    ELSE [null |-> FALSE, list |-> FindAll(row.formula.text)]

ExtractFormulaChildren(rows) == [ i \in 1..Len(rows) |-> Children(rows[i]) ]

----------------------------------------------------------------------------
\* Graphs.  A graph (dict) is a sequence indexed by its keys 1..n in
\* insertion order; g[k] is the dependency list of key k.

Keys(g) == 1..Len(g)

\* Variant of KeepKnown that also drops a name it has already kept.
RECURSIVE KeepKnownOnce(_, _)
KeepKnownOnce(g, values) ==
    IF values = <<>> THEN <<>>
    ELSE LET rest == KeepKnownOnce(g, Front(values))
         IN  IF Last(values) \in Keys(g) /\ Last(values) \notin Range(rest)
             THEN Append(rest, Last(values))
             ELSE rest

\* prune_missing_from_graph: [value for value in graph[key] if value in graph]
RECURSIVE KeepKnown(_, _)
KeepKnown(g, values) ==
    IF values = <<>> THEN <<>>
    ELSE IF Head(values) \in Keys(g)
         THEN <<Head(values)>> \o KeepKnown(g, Tail(values))
         ELSE KeepKnown(g, Tail(values))

PruneMissingFromGraph(g) == [ key \in Keys(g) |-> KeepKnown(g, g[key]) ]

\* Variant of Targets that does not count a key's reference to itself.
RECURSIVE TargetsOfOthers(_, _)
TargetsOfOthers(g, k) ==
    IF k = 0 THEN {} ELSE TargetsOfOthers(g, k - 1) \cup (Range(g[k]) \ {k})

\* find_topological_graph_starts, lines 141-145: the populated target set.
RECURSIVE Targets(_, _)
Targets(g, k) ==
    IF k = 0 THEN {} ELSE Targets(g, k - 1) \cup Range(g[k])

\* Variant of StartsFrom that collects the keys last to first.
RECURSIVE StartsFromBackwards(_, _, _)
StartsFromBackwards(g, targets, k) ==
    IF k > Len(g) THEN <<>>
    ELSE IF k \notin targets
         THEN Append(StartsFromBackwards(g, targets, k + 1), k)
         ELSE StartsFromBackwards(g, targets, k + 1)

\* find_topological_graph_starts, line 147: [k for k in graph if k not in targets]
RECURSIVE StartsFrom(_, _, _)
StartsFrom(g, targets, k) ==
    IF k > Len(g) THEN <<>>
    ELSE IF k \notin targets THEN <<k>> \o StartsFrom(g, targets, k + 1)
         ELSE StartsFrom(g, targets, k + 1)

\* find_topological_graph_starts: the list it returns, or the exception.
FindTopologicalGraphStarts(g) ==
    LET found == StartsFrom(g, Targets(g, Len(g)), 1)
    IN  IF Len(found) = 0
        THEN [raised |-> "InvalidCalculationGraphException", starts |-> <<>>]
        ELSE [raised |-> "none", starts |-> found]

\* Variant of Unwind that forgets the nodes it pops.
RECURSIVE UnwindDropsPopped(_, _, _, _)
UnwindDropsPopped(g, v, stack, order) ==
    IF stack # <<>> /\ v \notin Range(g[Last(stack)])
    THEN UnwindDropsPopped(g, v, Front(stack), order)
    ELSE [stack |-> stack, order |-> order]

\* iterative_topological_sort, lines 186-187: unwind the open path until its
\* top has v among its dependencies.
RECURSIVE Unwind(_, _, _, _)
Unwind(g, v, stack, order) ==
    IF stack # <<>> /\ v \notin Range(g[Last(stack)])
    THEN Unwind(g, v, Front(stack), Append(order, Last(stack)))
    ELSE [stack |-> stack, order |-> order]

\* iterative_topological_sort, lines 176-179: the locals before the loop.
SortStart(startList) ==
    [q |-> startList, seen |-> {}, stack |-> <<>>, order |-> <<>>]

\* Variant of SortStep that marks the dependencies seen as it pushes them.
SortStepMarksPushed(g, s) ==
    LET v == Last(s.q)
        popped == Front(s.q)
    IN  IF v \in s.seen THEN [s EXCEPT !.q = popped]
        ELSE LET u == Unwind(g, v, s.stack, s.order)
             IN  [q |-> popped \o g[v],
                  seen |-> s.seen \cup {v} \cup Range(g[v]),
                  stack |-> Append(u.stack, v),
                  order |-> u.order]

\* Variant of SortStep that leaves a node it has seen on the worklist.
SortStepKeepsSeenOnWorklist(g, s) ==
    LET v == Last(s.q)
        popped == Front(s.q)
    IN  IF v \in s.seen THEN s
        ELSE LET u == Unwind(g, v, s.stack, s.order)
             IN  [q |-> popped \o g[v],
                  seen |-> s.seen \cup {v},
                  stack |-> Append(u.stack, v),
                  order |-> u.order]

\* Variant of SortStep that pushes the node without unwinding the path.
SortStepNeverUnwinds(g, s) ==
    LET v == Last(s.q)
        popped == Front(s.q)
    IN  IF v \in s.seen THEN [s EXCEPT !.q = popped]
        ELSE [q |-> popped \o g[v],
              seen |-> s.seen \cup {v},
              stack |-> Append(s.stack, v),
              order |-> s.order]

\* iterative_topological_sort, lines 181-188: one iteration of `while q`.
SortStep(g, s) ==
    LET v == Last(s.q)
        popped == Front(s.q)
    IN  IF v \in s.seen THEN [s EXCEPT !.q = popped]
        ELSE LET u == Unwind(g, v, s.stack, s.order)
             IN  [q |-> popped \o g[v],
                  seen |-> s.seen \cup {v},
                  stack |-> Append(u.stack, v),
                  order |-> u.order]

\* Variant of SortResult that appends order as it stands (no [::-1]).
SortResultOrderKept(s, rev) ==
    LET res == s.stack \o s.order
    IN  IF rev THEN Reverse(res) ELSE res

\* Variant of SortResult whose reverse turns round the stack part only.
SortResultReversesStackOnly(s, rev) ==
    IF rev THEN Reverse(s.stack) \o Reverse(s.order)
    ELSE s.stack \o Reverse(s.order)

\* iterative_topological_sort, lines 190-194: the returned list.
SortResult(s, rev) ==
    LET res == s.stack \o Reverse(s.order)
    IN  IF rev THEN Reverse(res) ELSE res

RECURSIVE SortLoop(_, _)
SortLoop(g, s) == IF s.q = <<>> THEN s ELSE SortLoop(g, SortStep(g, s))

IterativeTopologicalSort(g, startList, rev) ==
    SortResult(SortLoop(g, SortStart(startList)), rev)

----------------------------------------------------------------------------
\* Tables

NoTable == [cols |-> {}, rows |-> <<>>]

\* Formula cells of weight w: the texts of w tokens and, with weight 1, the
\* null cell.
CellsOfWeight(tokens, w) ==
    { [null |-> FALSE, text |-> t] : t \in SeqsOfLen(tokens, w) }
    \cup (IF w = 1 THEN { [null |-> TRUE, text |-> <<>>] } ELSE {})

\* The formula columns of n rows holding at most e tokens in all.
RECURSIVE FormulaColumns(_, _, _)
FormulaColumns(tokens, n, e) ==
    IF n = 0 THEN { <<>> }
    ELSE UNION { UNION { { Append(col, cell) :
                           col \in FormulaColumns(tokens, n - 1, e - w) }
                         : cell \in CellsOfWeight(tokens, w) }
                 : w \in 0..e }

\* The table of n rows named 1..n with formula column col and, when flags is
\* not <<>>, an is_calculation column flags.
Table(n, col, flags) ==
    IF flags = <<>>
    THEN [cols |-> {"name", "formula"},
          rows |-> [i \in 1..n |-> [name |-> i, formula |-> col[i]]]]
    ELSE [cols |-> {"name", "formula", "is_calculation"},
          rows |-> [i \in 1..n |-> [name |-> i, formula |-> col[i],
                                    is_calculation |-> flags[i]]]]

\* The table of n rows named 1..n that has no formula column, with an
\* is_calculation column flags when flags is not <<>>.
PlainTable(n, flags) ==
    IF flags = <<>>
    THEN [cols |-> {"name"}, rows |-> [i \in 1..n |-> [name |-> i]]]
    ELSE [cols |-> {"name", "is_calculation"},
          rows |-> [i \in 1..n |-> [name |-> i, is_calculation |-> flags[i]]]]

\* The tokens a formula of a batch of n rows is made of.
Tokens(n) == (1..n) \cup {Unknown, Other}

\* Any table of at most MaxRows rows: a formula column or none, and either
\* no is_calculation column or any column of booleans.
IsTable(t) ==
    \E n \in 0..MaxRows :
        \/ \E col \in FormulaColumns(Tokens(n), n, MaxRefs) :
              \/ t = Table(n, col, <<>>)
              \/ n > 0 /\ \E flags \in [1..n -> BOOLEAN] : t = Table(n, col, flags)
              \/ n = 0 /\ t = [Table(n, col, <<>>) EXCEPT
                                   !.cols = @ \cup {"is_calculation"}]
        \/ t = PlainTable(n, <<>>)
        \/ n > 0 /\ \E flags \in [1..n -> BOOLEAN] : t = PlainTable(n, flags)

\* df[col] = values: the table with one more column.
WithColumn(t, col, values) ==
    [cols |-> t.cols \cup {col},
     rows |-> [i \in 1..Len(t.rows) |->
                 [c \in (DOMAIN t.rows[i]) \cup {col} |->
                     IF c = col THEN values[i] ELSE t.rows[i][c]]]]

\* df.drop(col, axis=1)
DropColumn(t, col) ==
    [cols |-> t.cols \ {col},
     rows |-> [i \in 1..Len(t.rows) |->
                 [c \in (DOMAIN t.rows[i]) \ {col} |-> t.rows[i][c]]]]

\* Variant of RowsWhere that collects the rows last to first.
RECURSIVE RowsWhereBackwards(_, _, _)
RowsWhereBackwards(rows, mask, i) ==
    IF i > Len(rows) THEN <<>>
    ELSE IF mask[i] THEN Append(RowsWhereBackwards(rows, mask, i + 1), rows[i])
         ELSE RowsWhereBackwards(rows, mask, i + 1)

\* df[mask]: the rows whose mask is true, in table order.
RECURSIVE RowsWhere(_, _, _)
RowsWhere(rows, mask, i) ==
    IF i > Len(rows) THEN <<>>
    ELSE IF mask[i] THEN <<rows[i]>> \o RowsWhere(rows, mask, i + 1)
         ELSE RowsWhere(rows, mask, i + 1)

Filter(t, mask) == [cols |-> t.cols, rows |-> RowsWhere(t.rows, mask, 1)]

----------------------------------------------------------------------------
\* sort_data_topological

NoReturn == [kind |-> "none"]

EmptyLocals == [q |-> <<>>, seen |-> {}, stack |-> <<>>, order |-> <<>>]

\* Lines 42-44: the is_calculation column is added to the caller's table
\* when it is absent: df[formula_col].notnull().
WithIsCalculation(t) ==
    IF "is_calculation" \in t.cols THEN t
    ELSE WithColumn(t, "is_calculation",
                    [i \in 1..Len(t.rows) |-> ~t.rows[i].formula.null])

\* Lines 51-53: name_graph[str(row[item_col])] = row[children_col]
NameGraph(children) == [i \in 1..Len(children) |-> children[i].list]

\* Variant of SortedNames that leaves reverse at its default.
SortedNamesDefaultOrder(g, roots) == IterativeTopologicalSort(g, roots, FALSE)

\* Line 58: iterative_topological_sort(graph=name_graph, starts=roots, reverse=True)
SortedNames(g, roots) == IterativeTopologicalSort(g, roots, TRUE)

\* Lines 73-75: item_name_map, looked up by name.
RowNamed(rows, name) == rows[CHOOSE i \in 1..Len(rows) : rows[i].name = name]

\* Lines 76-81: the rows in the order of sorted_names.
Reordered(t, sortedNames) ==
    [cols |-> t.cols,
     rows |-> [k \in 1..Len(sortedNames) |-> RowNamed(t.rows, sortedNames[k])]]

\* Variant of CalculationStatus that puts only the flagged rows in the tree.
CalculationStatusFlaggedOnly(t, g) ==
    [i \in 1..Len(t.rows) |->
        IF t.rows[i].is_calculation THEN "in_calc_tree" ELSE "independent"]

\* Lines 62-66: the calculation_status column.
CalculationStatus(t, g) ==
    LET calculations == { t.rows[i].name : i \in { j \in 1..Len(t.rows) :
                                                     t.rows[j].is_calculation } }
        all_children == UNION { Range(g[k]) : k \in Keys(g) }
    IN  [i \in 1..Len(t.rows) |->
            IF t.rows[i].name \in calculations \/ t.rows[i].name \in all_children
            THEN "in_calc_tree" ELSE "independent"]

\* Lines 68-71: the two tables returned in split mode.
SplitReturn(t) ==
    [kind |-> "pair",
     in_calc_tree |->
        DropColumn(Filter(t, [i \in 1..Len(t.rows) |->
                                 t.rows[i].calculation_status = "in_calc_tree"]),
                   "calculation_status"),
     independent |->
        DropColumn(Filter(t, [i \in 1..Len(t.rows) |->
                                 t.rows[i].calculation_status = "independent"]),
                   "calculation_status")]

\* The whole call: what it returns or raises, what it leaves in the caller's
\* table, and the graph, roots and order it computed on the way.  The
\* designated formula column (formula_col) is the column "formula".  A null
\* children cell (a flagged row with a null formula) makes the list
\* comprehension of prune_missing_from_graph raise TypeError.
SortDataTopological(t, split) ==
    LET nothing == [df |-> t, ret |-> NoReturn, raised |-> "none",
                    rawGraph |-> <<>>, graph |-> <<>>, starts |-> <<>>,
                    result |-> <<>>]
    IN
    IF Len(t.rows) <= 1
    THEN [nothing EXCEPT !.ret = [kind |-> "table", table |-> t]]
    ELSE
    IF "formula" \notin t.cols
    THEN [nothing EXCEPT !.raised = "ValueError"]
    ELSE
    LET t1 == WithIsCalculation(t)
        children == ExtractFormulaChildren(t1.rows)
    IN
    IF \E i \in 1..Len(children) : children[i].null
    THEN [nothing EXCEPT !.df = t1, !.raised = "TypeError"]
    ELSE
    LET name_graph == NameGraph(children)
        pruned == PruneMissingFromGraph(name_graph)
        roots == FindTopologicalGraphStarts(pruned)
    IN
    IF roots.raised # "none"
    THEN [nothing EXCEPT !.df = t1, !.raised = roots.raised,
                         !.rawGraph = name_graph, !.graph = pruned]
    ELSE
    LET sorted_names == SortedNames(pruned, roots.starts)
        computed == [nothing EXCEPT !.rawGraph = name_graph, !.graph = pruned,
                                    !.starts = roots.starts,
                                    !.result = sorted_names]
    IN
    IF split
    THEN LET t2 == WithColumn(t1, "calculation_status",
                              CalculationStatus(t1, pruned))
         IN  [computed EXCEPT !.df = t2, !.ret = SplitReturn(t2)]
    ELSE [computed EXCEPT !.df = t1,
                          !.ret = [kind |-> "table",
                                   table |-> Reordered(t1, sorted_names)]]

----------------------------------------------------------------------------
\* sort_data_topological(df, item_col='code', split=False): the item names
\* are in the column code, 1..n in table order, and the formulas reference
\* them; a column name may be there as well, holding anything.

\* Lines 73-75: item_name_map = {str(item['name']): item ...}: the row kept
\* under a name is the last one that carries it.
LastRowNamed(rows, name) ==
    rows[CHOOSE i \in 1..Len(rows) :
            /\ rows[i].name = name
            /\ \A j \in (i + 1)..Len(rows) : rows[j].name # name]

\* Lines 76-80: [item_name_map[name] for name in sorted_names
\*               if name in item_name_map]
RECURSIVE Response(_, _)
Response(rows, sortedNames) ==
    IF sortedNames = <<>> THEN <<>>
    ELSE IF \E i \in 1..Len(rows) : rows[i].name = Head(sortedNames)
         THEN <<LastRowNamed(rows, Head(sortedNames))>>
              \o Response(rows, Tail(sortedNames))
         ELSE Response(rows, Tail(sortedNames))

\* The whole call.  The graph is keyed by str(row[item_col]) (line 53); the
\* rows are looked up by item['name'] (line 74), which raises KeyError when
\* the table has no column name; pd.DataFrame([]) has no columns.
SortDataTopologicalByCode(t) ==
    LET nothing == [df |-> t, ret |-> NoReturn, raised |-> "none",
                    rawGraph |-> <<>>, graph |-> <<>>, starts |-> <<>>,
                    result |-> <<>>]
    IN
    IF Len(t.rows) <= 1
    THEN [nothing EXCEPT !.ret = [kind |-> "table", table |-> t]]
    ELSE
    IF "formula" \notin t.cols
    THEN [nothing EXCEPT !.raised = "ValueError"]
    ELSE
    LET t1 == WithIsCalculation(t)
        children == ExtractFormulaChildren(t1.rows)
    IN
    IF \E i \in 1..Len(children) : children[i].null
    THEN [nothing EXCEPT !.df = t1, !.raised = "TypeError"]
    ELSE
    LET name_graph == NameGraph(children)
        pruned == PruneMissingFromGraph(name_graph)
        roots == FindTopologicalGraphStarts(pruned)
    IN
    IF roots.raised # "none"
    THEN [nothing EXCEPT !.df = t1, !.raised = roots.raised,
                         !.rawGraph = name_graph, !.graph = pruned]
    ELSE
    LET sorted_names == SortedNames(pruned, roots.starts)
        computed == [nothing EXCEPT !.df = t1,
                                    !.rawGraph = name_graph, !.graph = pruned,
                                    !.starts = roots.starts,
                                    !.result = sorted_names]
        response == Response(t1.rows, sorted_names)
    IN
    IF "name" \notin t1.cols
    THEN [computed EXCEPT !.raised = "KeyError"]
    ELSE [computed EXCEPT
             !.ret = [kind |-> "table",
                      table |-> [cols |-> IF response = <<>> THEN {} ELSE t1.cols,
                                 rows |-> response]]]

\* The table of n rows with item names 1..n in the column code, formula
\* column col and, when names is not <<>>, a column name.
ItemTable(n, col, names) ==
    IF names = <<>>
    THEN [cols |-> {"code", "formula"},
          rows |-> [i \in 1..n |-> [code |-> i, formula |-> col[i]]]]
    ELSE [cols |-> {"code", "formula", "name"},
          rows |-> [i \in 1..n |-> [code |-> i, formula |-> col[i],
                                    name |-> names[i]]]]

\* Any such table of at most MaxItemRows rows; a name is an item name of
\* the batch or Unknown, which is none of them.
ItemInit ==
    /\ \E n \in 0..MaxItemRows :
          \E col \in FormulaColumns(Tokens(n), n, MaxRefs) :
             \/ df = ItemTable(n, col, <<>>)
             \/ n > 0 /\ \E names \in [1..n -> (1..n) \cup {Unknown}] :
                           df = ItemTable(n, col, names)
    /\ input = df
    /\ ret = NoReturn
    /\ raised = "none"
    /\ pc = "call"
    /\ rawGraph = <<>>
    /\ graph = <<>>
    /\ starts = <<>>
    /\ st = EmptyLocals
    /\ reverse = FALSE
    /\ result = <<>>
    /\ mt = FALSE
    /\ cursor = 0
    /\ thr = <<>>
    /\ permits = 0
    /\ wire = <<>>

CallSortByItemCol ==
    /\ pc = "call"
    /\ LET out == SortDataTopologicalByCode(df)
       IN  /\ df' = out.df
           /\ ret' = out.ret
           /\ raised' = out.raised
           /\ rawGraph' = out.rawGraph
           /\ graph' = out.graph
           /\ starts' = out.starts
           /\ result' = out.result
    /\ pc' = "returned"
    /\ reverse' = TRUE
    /\ UNCHANGED <<input, wire, st, mt, cursor, thr, permits>>

ItemNext == CallSortByItemCol

ItemSpec == ItemInit /\ [][ItemNext]_vars

----------------------------------------------------------------------------
\* Specification of one call of sort_data_topological on any table.

Init ==
    /\ IsTable(df)
    /\ input = df
    /\ ret = NoReturn
    /\ raised = "none"
    /\ pc = "call"
    /\ rawGraph = <<>>
    /\ graph = <<>>
    /\ starts = <<>>
    /\ st = EmptyLocals
    /\ reverse = FALSE
    /\ result = <<>>
    /\ mt = FALSE
    /\ cursor = 0
    /\ thr = <<>>
    /\ permits = 0
    /\ wire = <<>>

CallSortDataTopological(split) ==
    /\ pc = "call"
    /\ LET out == SortDataTopological(df, split)
       IN  /\ df' = out.df
           /\ ret' = out.ret
           /\ raised' = out.raised
           /\ rawGraph' = out.rawGraph
           /\ graph' = out.graph
           /\ starts' = out.starts
           /\ result' = out.result
    /\ pc' = IF split THEN "returned_split" ELSE "returned"
    /\ reverse' = TRUE
    /\ UNCHANGED <<input, wire, st, mt, cursor, thr, permits>>

Next == \E split \in BOOLEAN : CallSortDataTopological(split)

Spec == Init /\ [][Next]_vars

----------------------------------------------------------------------------
\* DataClient.get_data (client.py, lines 713-751): the retry loop.  One step
\* is one request with what the loop body does about its outcome, or one
\* sleep of exponential_backoff.

\* What a request can come to.  Data: status 200 and a body with data.
\* NoData: status 200 and a body without.  HTTPError: raise_for_status
\* raises.  ConnectionError: requests.request raises.  JSONDecodeError:
\* response.json() raises.
Outcomes == {"Data", "NoData", "HTTPError", "ConnectionError", "JSONDecodeError"}

\* Line 746: except (requests.HTTPError, requests.RequestException).  The
\* error of response.json() is a RequestException from requests 2.27 on and
\* a plain ValueError before, so either can be the case for it.
CaughtChoices(outcome) ==
    CASE outcome \in {"HTTPError", "ConnectionError"} -> {TRUE}
      [] outcome = "JSONDecodeError" -> BOOLEAN
      [] OTHER -> {FALSE}

\* Line 725 and the errors of lines 717-722: the exception an outcome raises.
ExceptionOf(outcome) ==
    IF outcome = "NoData" THEN "NoDataReturnedException" ELSE outcome

\* helpers.py, line 176: delay = 2 ** retries
ExponentialBackoffDelay(retries) == 2 ^ retries

\* Variant of ShouldBackoff that backs off after every failure.
BackoffAfterEveryFailure(attempt, retries) == TRUE

\* Line 748: if attempt < retries - 1
ShouldBackoff(attempt, retries) == attempt < retries - 1

GetDataInit ==
    /\ \E n \in 0..MaxRetries : st = [attempt |-> 0, retries |-> n]
    /\ pc = "get_data"
    /\ wire = <<>>
    /\ ret = NoReturn
    /\ raised = "none"
    /\ df = NoTable
    /\ input = NoTable
    /\ rawGraph = <<>>
    /\ graph = <<>>
    /\ starts = <<>>
    /\ reverse = FALSE
    /\ result = <<>>
    /\ mt = FALSE
    /\ cursor = 0
    /\ thr = <<>>
    /\ permits = 0

\* Line 713: for attempt in range(retries); after the last value the
\* function falls off its end and returns None.
AfterLoopHeader(attempt, retries) ==
    IF attempt < retries THEN "request" ELSE "get_data_returned"

\* Lines 692-713: the parameters are prepared and the loop is entered.
EnterRetryLoop ==
    /\ pc = "get_data"
    /\ pc' = AfterLoopHeader(st.attempt, st.retries)
    /\ ret' = IF st.attempt < st.retries THEN ret ELSE [kind |-> "None"]
    /\ UNCHANGED <<df, input, wire, raised, rawGraph, graph, starts, st,
                   reverse, result, mt, cursor, thr, permits>>

\* Lines 714-751: the request of this attempt is sent and comes to outcome;
\* caught tells whether line 746 catches what it raised.
SendRequest(outcome, caught) ==
    /\ pc = "request"
    /\ caught \in CaughtChoices(outcome)
    /\ wire' = Append(wire, [op |-> "request", attempt |-> st.attempt,
                             outcome |-> outcome, caught |-> caught])
    /\ IF outcome = "Data"
       THEN /\ ret' = [kind |-> "series", attempt |-> st.attempt]
            /\ pc' = "get_data_returned"
            /\ raised' = raised
       ELSE IF caught /\ ShouldBackoff(st.attempt, st.retries)
       THEN /\ pc' = "backoff"
            /\ UNCHANGED <<ret, raised>>
       ELSE /\ raised' = ExceptionOf(outcome)
            /\ pc' = "get_data_raised"
            /\ ret' = ret
    /\ UNCHANGED <<df, input, rawGraph, graph, starts, st, reverse, result,
                   mt, cursor, thr, permits>>

\* Line 749 and helpers.py, lines 176-178: the sleep, then the next value
\* of attempt.
ExponentialBackoff ==
    /\ pc = "backoff"
    /\ wire' = Append(wire, [op |-> "sleep",
                             delay |-> ExponentialBackoffDelay(st.attempt)])
    /\ st' = [st EXCEPT !.attempt = @ + 1]
    /\ pc' = AfterLoopHeader(st.attempt + 1, st.retries)
    /\ ret' = IF st.attempt + 1 < st.retries THEN ret ELSE [kind |-> "None"]
    /\ UNCHANGED <<df, input, raised, rawGraph, graph, starts, reverse,
                   result, mt, cursor, thr, permits>>

GetDataNext ==
    \/ EnterRetryLoop
    \/ \E outcome \in Outcomes : \E caught \in BOOLEAN :
          SendRequest(outcome, caught)
    \/ ExponentialBackoff

GetDataSpec == GetDataInit /\ [][GetDataNext]_vars

----------------------------------------------------------------------------
\* Specification of one call of sort_data_topological on a table that may
\* already have a column calculation_status, as the table of an earlier
\* call in split mode has (line 63 leaves the column on it).

\* What such a column can hold: the two values of line 64 and anything else.
StatusValues == {"in_calc_tree", "independent", "other"}

FrameInit ==
    /\ \E n \in 0..MaxFrameRows :
          \E col \in FormulaColumns(Tokens(n), n, MaxRefs) :
             \E flags \in {<<>>} \cup (IF n > 0 THEN [1..n -> BOOLEAN] ELSE {}) :
                \/ df = Table(n, col, flags)
                \/ \E status \in [1..n -> StatusValues] :
                      df = WithColumn(Table(n, col, flags),
                                      "calculation_status", status)
    /\ input = df
    /\ ret = NoReturn
    /\ raised = "none"
    /\ pc = "call"
    /\ rawGraph = <<>>
    /\ graph = <<>>
    /\ starts = <<>>
    /\ st = EmptyLocals
    /\ reverse = FALSE
    /\ result = <<>>
    /\ mt = FALSE
    /\ cursor = 0
    /\ thr = <<>>
    /\ permits = 0
    /\ wire = <<>>

FrameNext == \E split \in BOOLEAN : CallSortDataTopological(split)

FrameSpec == FrameInit /\ [][FrameNext]_vars

----------------------------------------------------------------------------
\* Specification of the graph functions run one after the other, as
\* sort_data_topological runs them (lines 55-58), on any graph; the loop of
\* iterative_topological_sort advances one iteration per step.

SortInit ==
    /\ \E n \in 0..MaxRows :
           \E g \in ListsWithin((1..n) \cup {Unknown}, n, MaxDeps) : rawGraph = g
    /\ graph = <<>>
    /\ pc = "prune"
    /\ df = NoTable
    /\ input = NoTable
    /\ ret = NoReturn
    /\ raised = "none"
    /\ starts = <<>>
    /\ st = EmptyLocals
    /\ reverse = FALSE
    /\ result = <<>>
    /\ mt = FALSE
    /\ cursor = 0
    /\ thr = <<>>
    /\ permits = 0
    /\ wire = <<>>

Prune ==
    /\ pc = "prune"
    /\ graph' = PruneMissingFromGraph(rawGraph)
    /\ pc' = "find"
    /\ UNCHANGED <<df, input, wire, ret, raised, rawGraph, starts, st, reverse,
                   result, mt, cursor, thr, permits>>

FindStarts ==
    /\ pc = "find"
    /\ LET found == FindTopologicalGraphStarts(graph)
       IN  /\ raised' = found.raised
           /\ starts' = found.starts
           /\ pc' = IF found.raised = "none" THEN "sort" ELSE "raised"
    /\ UNCHANGED <<df, input, wire, ret, rawGraph, graph, st, reverse, result, mt,
                   cursor, thr, permits>>

\* Variant of SharedStarts in which q is a copy of the caller's list.
CopiedStarts(startList, s) == startList

\* Line 179, q = starts: the caller's list is the worklist, whatever the
\* loop has made of it.
SharedStarts(startList, s) == s.q

\* Line 179, q = starts: the worklist is the caller's list object itself.
BeginSort(rev) ==
    /\ pc = "sort"
    /\ st' = SortStart(starts)
    /\ reverse' = rev
    /\ pc' = "loop"
    /\ UNCHANGED <<df, input, wire, ret, raised, rawGraph, graph, starts, result, mt,
                   cursor, thr, permits>>

Iterate ==
    /\ pc = "loop"
    /\ st.q # <<>>
    /\ st' = SortStep(graph, st)
    /\ starts' = SharedStarts(starts, st')
    /\ UNCHANGED <<df, input, wire, ret, raised, pc, rawGraph, graph, reverse,
                   result, mt, cursor, thr, permits>>

Return ==
    /\ pc = "loop"
    /\ st.q = <<>>
    /\ result' = SortResult(st, reverse)
    /\ pc' = "returned"
    /\ UNCHANGED <<df, input, wire, ret, raised, rawGraph, graph, starts, st,
                   reverse, mt, cursor, thr, permits>>

SortNext ==
    \/ Prune
    \/ FindStarts
    \/ \E rev \in BOOLEAN : BeginSort(rev)
    \/ Iterate
    \/ Return

SortSpec == SortInit /\ [][SortNext]_vars

----------------------------------------------------------------------------
\* Specification of iterative_topological_sort called on its own: any graph
\* whose dependency lists hold keys only, cycles and self-references
\* included, and any list of keys as starts, repeats and keys that are not
\* roots included.  The loop runs until the worklist is empty, so the fair
\* specification lets no enabled step wait for ever.

TopoInit ==
    /\ \E n \in 0..MaxRows :
          /\ \E g \in ListsWithin(1..n, n, MaxEdges) : graph = g
          /\ \E k \in 0..MaxStarts : \E s \in SeqsOfLen(1..n, k) : starts = s
    /\ rawGraph = graph
    /\ input = starts
    /\ pc = "sort"
    /\ df = NoTable
    /\ ret = NoReturn
    /\ raised = "none"
    /\ st = EmptyLocals
    /\ reverse = FALSE
    /\ result = <<>>
    /\ mt = FALSE
    /\ cursor = 0
    /\ thr = <<>>
    /\ permits = 0
    /\ wire = <<>>

TopoNext ==
    \/ \E rev \in BOOLEAN : BeginSort(rev)
    \/ Iterate
    \/ Return

TopoSpec == TopoInit /\ [][TopoNext]_vars

TopoFairSpec == TopoInit /\ [][TopoNext]_vars /\ WF_vars(TopoNext)

----------------------------------------------------------------------------
\* process_csv_generic

\* 'formula' in col, for the column names a table can have.
ContainsFormula(col) == col \in {"formula", "name_formula"}

\* Variant of FormulaCols that looks for the column named formula only.
FormulaColsExactName(t) == { col \in t.cols : col = "formula" }

\* Line 24: [col for col in df.columns if 'formula' in col]
FormulaCols(t) == { col \in t.cols : ContainsFormula(col) }

\* df.fillna(''): every null formula becomes the empty text.
FillNa(t) ==
    [t EXCEPT !.rows = [i \in 1..Len(t.rows) |->
        [c \in DOMAIN t.rows[i] |->
            IF ContainsFormula(c)
            THEN [null |-> FALSE, text |-> t.rows[i][c].text]
            ELSE t.rows[i][c]]]]

\* df[formula_col].notna().any()
AnyFormulaNotNa(t) == \E i \in 1..Len(t.rows) : ~t.rows[i].formula.null

\* check_and_sort_formula_columns: what it leaves in the caller's table
\* (df), the table its local name df is bound to when it returns (sorted),
\* and what it raises.  It returns None.  A single formula column is the
\* column "formula".
CheckAndSortFormulaColumns(t) ==
    IF Cardinality(FormulaCols(t)) > 1
    THEN [df |-> t, raised |-> "MultipleFormulaColumnException",
          sorted |-> NoTable,
          rawGraph |-> <<>>, graph |-> <<>>, starts |-> <<>>, result |-> <<>>]
    ELSE IF FormulaCols(t) = {}
    THEN [df |-> t, raised |-> "none", sorted |-> t,
          rawGraph |-> <<>>, graph |-> <<>>, starts |-> <<>>, result |-> <<>>]
    ELSE IF AnyFormulaNotNa(t)
    THEN LET out == SortDataTopological(t, FALSE)
         IN  [df |-> out.df, raised |-> out.raised,
              sorted |-> IF out.raised = "none" THEN FillNa(out.ret.table)
                         ELSE NoTable,
              rawGraph |-> out.rawGraph, graph |-> out.graph,
              starts |-> out.starts, result |-> out.result]
    ELSE [df |-> FillNa(t), raised |-> "none", sorted |-> FillNa(t),
          rawGraph |-> <<>>, graph |-> <<>>, starts |-> <<>>, result |-> <<>>]

\* read_and_check_csv, lines 43-52, on the table read_csv returned: the table
\* it returns is the one bound to its own name df.
ReadAndCheckCsv(t) ==
    LET filled == FillNa(t)
        n == Len(t.rows)
        marked == WithColumn(WithColumn(filled, "processed", [i \in 1..n |-> FALSE]),
                             "processed_error", [i \in 1..n |-> ""])
        checked == CheckAndSortFormulaColumns(marked)
    IN  checked

\* Variant of Marked that sets the flag of a failed row as well.
MarkedFlagAlways(t, i, ok) ==
    [t EXCEPT !.rows[i] = IF ok THEN [@ EXCEPT !.processed = TRUE]
                          ELSE [@ EXCEPT !.processed = TRUE,
                                         !.processed_error = "error"]]

\* df.at[index, operation] = True, or df.at[index, operation + '_error'] = str(e)
Marked(t, i, ok) ==
    [t EXCEPT !.rows[i] = IF ok THEN [@ EXCEPT !.processed = TRUE]
                          ELSE [@ EXCEPT !.processed_error = "error"]]

\* The table with a second formula column, name_formula, of empty cells.
WithSecondFormulaColumn(t) ==
    WithColumn(t, "name_formula",
               [i \in 1..Len(t.rows) |-> [null |-> TRUE, text |-> <<>>]])

\* Variant of AfterRead that goes on to the upload whatever was raised.
AfterReadSwallowsError(raisedBy, multithreaded) ==
    IF multithreaded THEN "threads" ELSE "upload"

\* Lines 50 and 131-136: an exception of read_and_check_csv leaves
\* process_csv_generic; otherwise the upload its flag selects is started.
AfterRead(raisedBy, multithreaded) ==
    IF raisedBy # "none" THEN "raised"
    ELSE IF multithreaded THEN "threads" ELSE "upload"

\* CSV files of at most MaxCsvRows rows, empty cells read as null: with one
\* formula column, with or without an is_calculation column; with two
\* formula columns; with none.
CsvInit ==
    /\ \E n \in 0..MaxCsvRows :
           \/ \E col \in FormulaColumns(Tokens(n), n, MaxRefs) :
                 \/ df = Table(n, col, <<>>)
                 \/ n > 0 /\ \E flags \in [1..n -> BOOLEAN] :
                               df = Table(n, col, flags)
                 \/ df = WithSecondFormulaColumn(Table(n, col, <<>>))
           \/ df = PlainTable(n, <<>>)
    /\ input = df
    /\ mt \in BOOLEAN
    /\ pc = "read"
    /\ ret = NoReturn
    /\ raised = "none"
    /\ rawGraph = <<>>
    /\ graph = <<>>
    /\ starts = <<>>
    /\ st = EmptyLocals
    /\ reverse = FALSE
    /\ result = <<>>
    /\ cursor = 0
    /\ thr = <<>>
    /\ permits = 0
    /\ wire = <<>>

\* process_csv_generic, line 131, and the set-up of the upload it starts.
ReadCsv ==
    /\ pc = "read"
    /\ LET checked == ReadAndCheckCsv(df)
       IN  /\ df' = checked.df
           /\ raised' = checked.raised
           /\ rawGraph' = checked.rawGraph
           /\ graph' = checked.graph
           /\ starts' = checked.starts
           /\ result' = checked.result
           /\ pc' = AfterRead(checked.raised, mt)
    /\ cursor' = 1
    /\ thr' = [i \in 1..Len(df.rows) |-> "unstarted"]
    /\ permits' = IF mt THEN CONCURRENT_REQUESTS ELSE 0
    /\ reverse' = TRUE
    /\ UNCHANGED <<input, wire, ret, st, mt>>

\* upload_models_from_df: one iteration of the loop over df.iterrows();
\* operation_callable returns (ok) or raises.
UploadRow(ok) ==
    /\ pc = "upload"
    /\ cursor <= Len(df.rows)
    /\ thr' = [thr EXCEPT ![cursor] = "finished"]
    /\ df' = Marked(df, cursor, ok)
    /\ cursor' = cursor + 1
    /\ UNCHANGED <<input, wire, ret, raised, pc, rawGraph, graph, starts, st,
                   reverse, result, mt, permits>>

\* upload_models_from_df_multithreaded, lines 90-93: the next thread starts.
StartThread ==
    /\ pc = "threads"
    /\ cursor <= Len(df.rows)
    /\ thr' = [thr EXCEPT ![cursor] = "waiting"]
    /\ cursor' = cursor + 1
    /\ UNCHANGED <<df, input, wire, ret, raised, pc, rawGraph, graph, starts, st,
                   reverse, result, mt, permits>>

\* Variant of CanAcquire in which acquire never blocks.
AcquireNeverBlocks(value) == TRUE

\* semaphore.acquire() blocks while the value of the semaphore is zero.
CanAcquire(value) == value > 0

\* inner_upload_func, lines 74-77: the permit is taken and
\* operation_callable is entered.
Acquire(i) ==
    /\ pc = "threads"
    /\ thr[i] = "waiting"
    /\ CanAcquire(permits)
    /\ permits' = permits - 1
    /\ thr' = [thr EXCEPT ![i] = "running"]
    /\ UNCHANGED <<df, input, wire, ret, raised, pc, rawGraph, graph, starts, st,
                   reverse, result, mt, cursor>>

\* Variant of Released that gives no permit back.
ReleaseLeaksPermit(value) == value

\* semaphore.release(): the value of the semaphore after it.
Released(value) == value + 1

\* inner_upload_func, lines 77-83: operation_callable returns or raises, the
\* row is marked and the permit is given back.
Complete(i, ok) ==
    /\ pc = "threads"
    /\ thr[i] = "running"
    /\ df' = Marked(df, i, ok)
    /\ permits' = Released(permits)
    /\ thr' = [thr EXCEPT ![i] = "released"]
    /\ UNCHANGED <<input, wire, ret, raised, pc, rawGraph, graph, starts, st,
                   reverse, result, mt, cursor>>

\* inner_upload_func, lines 85-86: the progress bar is advanced under the
\* lock and the thread ends.
UpdateProgress(i) ==
    /\ pc = "threads"
    /\ thr[i] = "released"
    /\ thr' = [thr EXCEPT ![i] = "finished"]
    /\ UNCHANGED <<df, input, wire, ret, raised, pc, rawGraph, graph, starts, st,
                   reverse, result, mt, cursor, permits>>

\* The upload has returned (in threaded mode: every thread is joined);
\* process_csv_generic saves the table and returns True.
SaveUpdatedCsv ==
    /\ pc \in {"upload", "threads"}
    /\ cursor > Len(df.rows)
    /\ \A i \in 1..Len(df.rows) : thr[i] = "finished"
    /\ pc' = "saved"
    /\ ret' = [kind |-> "bool", value |-> TRUE]
    /\ UNCHANGED <<df, input, wire, raised, rawGraph, graph, starts, st, reverse,
                   result, mt, cursor, thr, permits>>

CsvNext ==
    \/ ReadCsv
    \/ \E ok \in BOOLEAN : UploadRow(ok)
    \/ StartThread
    \/ \E i \in 1..Len(df.rows) : Acquire(i)
    \/ \E i \in 1..Len(df.rows), ok \in BOOLEAN : Complete(i, ok)
    \/ \E i \in 1..Len(df.rows) : UpdateProgress(i)
    \/ SaveUpdatedCsv

CsvSpec == CsvInit /\ [][CsvNext]_vars

----------------------------------------------------------------------------
\* Specification of the two upload functions as process_csv_generic calls
\* them (lines 133-140), on any table read_and_check_csv returns for a file
\* without formulas: up to MaxUploadRows rows, more than the semaphore has
\* permits.

UploadTable(n) ==
    [cols |-> {"name", "processed", "processed_error"},
     rows |-> [i \in 1..n |-> [name |-> i, processed |-> FALSE,
                               processed_error |-> ""]]]

UploadInit ==
    /\ \E n \in 0..MaxUploadRows : df = UploadTable(n)
    /\ input = df
    /\ mt \in BOOLEAN
    /\ pc = AfterRead("none", mt)
    /\ cursor = 1
    /\ thr = [i \in 1..Len(df.rows) |-> "unstarted"]
    /\ permits = IF mt THEN CONCURRENT_REQUESTS ELSE 0
    /\ wire = <<>>
    /\ ret = NoReturn
    /\ raised = "none"
    /\ rawGraph = <<>>
    /\ graph = <<>>
    /\ starts = <<>>
    /\ st = EmptyLocals
    /\ reverse = FALSE
    /\ result = <<>>

UploadNext ==
    \/ \E ok \in BOOLEAN : UploadRow(ok)
    \/ StartThread
    \/ \E i \in 1..Len(df.rows) : Acquire(i)
    \/ \E i \in 1..Len(df.rows), ok \in BOOLEAN : Complete(i, ok)
    \/ \E i \in 1..Len(df.rows) : UpdateProgress(i)
    \/ SaveUpdatedCsv

UploadSpec == UploadInit /\ [][UploadNext]_vars

\* The same with a scheduler that lets no runnable thread wait for ever and
\* invocations of operation_callable that all end.
UploadFairSpec == UploadInit /\ [][UploadNext]_vars /\ WF_vars(UploadNext)

----------------------------------------------------------------------------
\* extract_formula_children on formula texts spelled out character by
\* character.  "A" and "B" stand for the characters of [A-Z0-9_], " " for
\* white space, which is also a character outside that class.

Chars == {"[", "]", "A", "B", " "}

NameChars == {"A", "B"}

\* The texts of at most n characters.
RECURSIVE TextsUpTo(_)
TextsUpTo(n) ==
    IF n = 0 THEN { <<>> }
    ELSE TextsUpTo(n - 1) \cup SeqsOfLen(Chars, n)

\* The first index from j on whose character is not one of [A-Z0-9_],
\* Len(text) + 1 when there is none.
RECURSIVE EndOfRun(_, _)
EndOfRun(text, j) ==
    IF j > Len(text) \/ text[j] \notin NameChars THEN j
    ELSE EndOfRun(text, j + 1)

\* The pattern \[([A-Z0-9_]+)\] tried at index i: the index of the closing
\* bracket of the match, 0 when it does not match there.
MatchEnd(text, i) ==
    IF text[i] # "[" THEN 0
    ELSE LET j == EndOfRun(text, i + 1)
         IN  IF j <= Len(text) /\ text[j] = "]" /\ j > i + 1 THEN j ELSE 0

\* str.findall(name_pattern) from index i on: the groups of the matches,
\* left to right, the search going on behind each match.
RECURSIVE FindAllFrom(_, _)
FindAllFrom(text, i) ==
    IF i > Len(text) THEN <<>>
    ELSE LET j == MatchEnd(text, i)
         IN  IF j > 0
             THEN <<SubSeq(text, i + 1, j - 1)>> \o FindAllFrom(text, j + 1)
             ELSE FindAllFrom(text, i + 1)

\* str.strip().astype(bool): the text has a character that is not white
\* space.
NotBlank(text) == \E k \in 1..Len(text) : text[k] # " "

\* Lines 118-122: calculation_rows, for one row of the table t.
CalculationRow(t, row) ==
    IF "is_calculation" \in t.cols THEN row.is_calculation
    ELSE ~row.formula.null /\ NotBlank(row.formula.text)

\* Lines 116-126: the children cell of one row; findall of a null formula
\* is null (NaN).
ChildrenOfText(t, row) ==
    IF ~CalculationRow(t, row) THEN [null |-> FALSE, list |-> <<>>]
    ELSE IF row.formula.null THEN [null |-> TRUE, list |-> <<>>]
    ELSE [null |-> FALSE, list |-> FindAllFrom(row.formula.text, 1)]

\* extract_formula_children with children_col='children': the copy it
\* returns.
ExtractFormulaChildrenOfText(t) ==
    WithColumn(t, "children",
               [i \in 1..Len(t.rows) |-> ChildrenOfText(t, t.rows[i])])

\* Specification of one call of extract_formula_children.  The function
\* works row by row, so the table has one row or none: any formula text of
\* at most MaxChars characters or a null formula, with or without an
\* is_calculation column.
ExtractInit ==
    /\ \/ \E cell \in { [null |-> FALSE, text |-> x] : x \in TextsUpTo(MaxChars) }
                      \cup { [null |-> TRUE, text |-> <<>>] } :
             \/ df = Table(1, <<cell>>, <<>>)
             \/ \E flag \in BOOLEAN : df = Table(1, <<cell>>, <<flag>>)
       \/ df = Table(0, <<>>, <<>>)
    /\ input = df
    /\ pc = "extract"
    /\ ret = NoReturn
    /\ raised = "none"
    /\ rawGraph = <<>>
    /\ graph = <<>>
    /\ starts = <<>>
    /\ st = EmptyLocals
    /\ reverse = FALSE
    /\ result = <<>>
    /\ mt = FALSE
    /\ cursor = 0
    /\ thr = <<>>
    /\ permits = 0
    /\ wire = <<>>

Extract ==
    /\ pc = "extract"
    /\ ret' = [kind |-> "table", table |-> ExtractFormulaChildrenOfText(df)]
    /\ pc' = "extracted"
    /\ UNCHANGED <<df, input, wire, raised, rawGraph, graph, starts, st, reverse,
                   result, mt, cursor, thr, permits>>

ExtractNext == Extract

ExtractSpec == ExtractInit /\ [][ExtractNext]_vars

----------------------------------------------------------------------------
\* Specification of one call of check_and_sort_formula_columns on any table,
\* one step per decision: the test of the column names, the call of
\* sort_data_topological, the fillna of line 37.

CheckInit ==
    /\ \/ IsTable(df)
       \/ \E n \in 0..MaxRows :
             \E col \in FormulaColumns(Tokens(n), n, MaxRefs) :
                df = WithSecondFormulaColumn(Table(n, col, <<>>))
    /\ input = df
    /\ pc = "check"
    /\ ret = NoReturn
    /\ raised = "none"
    /\ rawGraph = <<>>
    /\ graph = <<>>
    /\ starts = <<>>
    /\ st = EmptyLocals
    /\ reverse = FALSE
    /\ result = <<>>
    /\ mt = FALSE
    /\ cursor = 0
    /\ thr = <<>>
    /\ permits = 0
    /\ wire = <<>>

\* Lines 24-31: the formula columns are counted; more than one raises, none
\* returns, one goes on to the sort when it has a value that is not null.
CheckFormulaColumns ==
    /\ pc = "check"
    /\ LET formula_cols == FormulaCols(df)
       IN  /\ raised' = IF Cardinality(formula_cols) > 1
                        THEN "MultipleFormulaColumnException" ELSE "none"
           /\ pc' = IF Cardinality(formula_cols) > 1 THEN "raised"
                    ELSE IF formula_cols = {} THEN "checked"
                    ELSE IF AnyFormulaNotNa(df) THEN "sorting"
                    ELSE "fill"
    /\ UNCHANGED <<df, input, wire, ret, rawGraph, graph, starts, st, reverse,
                   result, mt, cursor, thr, permits>>

\* Line 32: df = sort_data_topological(df, ...): the local name is bound to
\* what the call returns; an exception of the call leaves the function.
SortFormulaColumn ==
    /\ pc = "sorting"
    /\ LET out == SortDataTopological(df, FALSE)
       IN  /\ df' = out.df
           /\ ret' = out.ret
           /\ raised' = out.raised
           /\ rawGraph' = out.rawGraph
           /\ graph' = out.graph
           /\ starts' = out.starts
           /\ result' = out.result
           /\ pc' = IF out.raised # "none" THEN "raised" ELSE "fill"
    /\ reverse' = TRUE
    /\ UNCHANGED <<input, wire, st, mt, cursor, thr, permits>>

\* Line 37: the formula column of the table the local name is bound to is
\* filled; that table is the caller's when the sort was not called or gave
\* its argument back (at most one row).  The function returns None.
FillFormulaColumn ==
    /\ pc = "fill"
    /\ ret' = IF ret = NoReturn THEN ret
              ELSE [ret EXCEPT !.table = FillNa(@)]
    /\ df' = IF ret = NoReturn \/ Len(df.rows) <= 1 THEN FillNa(df) ELSE df
    /\ pc' = "checked"
    /\ UNCHANGED <<input, wire, raised, rawGraph, graph, starts, st, reverse,
                   result, mt, cursor, thr, permits>>

CheckNext ==
    \/ CheckFormulaColumns
    \/ SortFormulaColumn
    \/ FillFormulaColumn

CheckSpec == CheckInit /\ [][CheckNext]_vars

----------------------------------------------------------------------------
\* Vocabulary of the properties

\* The keys reachable from the set S by following at most k dependency edges.
RECURSIVE ReachWithin(_, _, _)
ReachWithin(g, S, k) ==
    IF k = 0 THEN S
    ELSE ReachWithin(g, S \cup UNION { Range(g[v]) \cap Keys(g) : v \in S }, k - 1)

\* The keys a depends on, directly or through other keys.
Descendants(g, a) == ReachWithin(g, Range(g[a]) \cap Keys(g), Len(g))

Acyclic(g) == \A a \in Keys(g) : a \notin Descendants(g, a)

\* a -> b: b is in the dependency list of a.
Edges(g) == { e \in Keys(g) \X Keys(g) : e[2] \in Range(g[e[1]]) }

\* The keys referenced by no key.
Unreferenced(g) == { k \in Keys(g) : \A j \in Keys(g) : k \notin Range(g[j]) }

Names(rows) == { rows[i].name : i \in 1..Len(rows) }

\* The names of rows of the batch that the formula of a row mentions.
Mentioned(row) == Range(row.formula.text) \cap Names(input.rows)

\* Position of the row named name in rows, 0 when absent.
PositionOf(rows, name) ==
    IF name \in Names(rows)
    THEN CHOOSE i \in 1..Len(rows) : rows[i].name = name
    ELSE 0

\* The operation on the row named name has been entered / has ended.
Entered(name) ==
    \E i \in 1..Len(df.rows) :
        df.rows[i].name = name /\ thr[i] \in {"running", "released", "finished"}

Ended(name) ==
    \E i \in 1..Len(df.rows) :
        df.rows[i].name = name /\ thr[i] \in {"released", "finished"}

----------------------------------------------------------------------------
\* C1 (as claimed): in process_csv_generic with upload_multithreaded=False
\* and an acyclic dependency graph, whenever the operation has been applied
\* to a row A whose formula references row B, it has been applied to B
\* already.
C1_SequentialUploadDependenciesFirst ==
    (~mt /\ pc \in {"upload", "saved"} /\ Acyclic(graph)) =>
        \A e \in Edges(graph) : Entered(e[1]) => Ended(e[2])

\* C2 (as claimed): sort_data_topological(split=False) on more than one row
\* with an acyclic pruned graph returns every row after every row of the
\* batch whose name its formula mentions.
C2_EveryRowAfterItsReferences ==
    (pc = "returned" /\ raised = "none" /\ Len(input.rows) > 1 /\ Acyclic(graph)) =>
        \A i \in 1..Len(ret.table.rows) :
            \A b \in Mentioned(ret.table.rows[i]) :
                LET j == PositionOf(ret.table.rows, b) IN j > 0 /\ j < i

\* C2 (amended): sort_data_topological(split=False) on more than one row
\* with an acyclic pruned graph returns every row that is flagged as a
\* calculation after every row of the batch whose name its formula mentions.
C2_FlaggedRowAfterItsReferences ==
    (pc = "returned" /\ raised = "none" /\ Len(input.rows) > 1 /\ Acyclic(graph)) =>
        \A i \in 1..Len(ret.table.rows) :
            ret.table.rows[i].is_calculation =>
                \A b \in Mentioned(ret.table.rows[i]) :
                    LET j == PositionOf(ret.table.rows, b) IN j > 0 /\ j < i

\* A returned table in which a flagged row was moved behind a later input
\* row that it references.
C2_Witness ==
    /\ pc = "returned" /\ raised = "none" /\ Acyclic(graph)
    /\ Len(input.rows) > 1
    /\ \E i \in 1..Len(ret.table.rows) :
          /\ ret.table.rows[i].is_calculation
          /\ \E b \in Mentioned(ret.table.rows[i]) : b > ret.table.rows[i].name

\* C3 (as claimed): iterative_topological_sort with reverse=False on an
\* acyclic pruned graph seeded with its roots returns, for every edge
\* A -> B, B at a strictly earlier index than A.
C3_DependencyFirstWhenNotReversed ==
    (pc = "returned" /\ ~reverse /\ Acyclic(graph)) =>
        \A e \in Edges(graph) :
            /\ IndexOf(result, e[2]) > 0
            /\ IndexOf(result, e[2]) < IndexOf(result, e[1])

\* C3 (amended): on an acyclic pruned graph seeded with its roots, for every
\* edge A -> B, iterative_topological_sort returns B at a strictly earlier
\* index than A when called with reverse=True, and A at a strictly earlier
\* index than B when called with reverse=False.
C3_DependencyFirstWhenReversed ==
    (pc = "returned" /\ Acyclic(graph)) =>
        \A e \in Edges(graph) :
            /\ IndexOf(result, e[1]) > 0
            /\ IndexOf(result, e[2]) > 0
            /\ reverse => IndexOf(result, e[2]) < IndexOf(result, e[1])
            /\ ~reverse => IndexOf(result, e[1]) < IndexOf(result, e[2])

\* A sort of an acyclic graph that unwound a finished branch of two nodes
\* into order before it returned.
C3_Witness ==
    /\ pc = "returned" /\ Acyclic(graph)
    /\ Edges(graph) # {}
    /\ Len(st.order) >= 2

\* C4: for an acyclic pruned graph, iterative_topological_sort seeded with
\* the list find_topological_graph_starts returned returns every key of the
\* graph exactly once and nothing else.
C4_OrderIsPermutationOfKeys ==
    (pc = "returned" /\ Acyclic(graph)) =>
        /\ Len(result) = Len(graph)
        /\ Range(result) = Keys(graph)
        /\ \A k \in Keys(graph) : Count(result, k) = 1

\* A sort of an acyclic graph in which one key is pushed onto the worklist
\* by two different keys.
C4_Witness ==
    /\ pc = "returned" /\ Acyclic(graph)
    /\ \E a, b, c \in Keys(graph) :
          a # b /\ c \in Range(graph[a]) /\ c \in Range(graph[b])

\* C5 (as claimed): whenever sort_data_topological(split=False) returns for
\* a batch of more than one row, the returned table holds every input row
\* exactly once.
C5_NoRowDropped ==
    (pc = "returned" /\ raised = "none" /\ Len(input.rows) > 1) =>
        /\ Len(ret.table.rows) = Len(input.rows)
        /\ Names(ret.table.rows) = Names(input.rows)

\* C6 (as claimed): in process_csv_generic with upload_multithreaded=True,
\* the operation on a row A whose formula references row B is entered only
\* after the operation on B has ended.  Stated for the CSV files whose rows
\* already stand in dependency order, where the order of the table is not
\* in question and only the dispatch is.
C6_ThreadedUploadDependenciesFirst ==
    (/\ mt /\ pc \in {"threads", "saved"} /\ Acyclic(graph)
     /\ \A e \in Edges(graph) :
           PositionOf(df.rows, e[2]) < PositionOf(df.rows, e[1])) =>
        \A e \in Edges(graph) : Entered(e[1]) => Ended(e[2])

\* C7: find_topological_graph_starts raises
\* InvalidCalculationGraphException exactly when every key of the graph is
\* in the dependency list of some key, and returns otherwise.
C7_RaisesIffEveryKeyReferenced ==
    (pc \in {"sort", "raised"}) =>
        /\ raised \in {"none", "InvalidCalculationGraphException"}
        /\ (raised = "InvalidCalculationGraphException") <=> (Unreferenced(graph) = {})
        /\ (pc = "raised") <=> (raised # "none")

\* The exception raised for two keys that reference each other.
C7_Witness ==
    /\ pc = "raised"
    /\ raised = "InvalidCalculationGraphException"
    /\ \E a, b \in Keys(graph) :
          a # b /\ b \in Range(graph[a]) /\ a \in Range(graph[b])

\* C8: prune_missing_from_graph returns the same keys; each dependency list
\* holds the references to keys of the input list, in their order and
\* multiplicity, and no other name; nothing is raised.
C8_PruneKeepsExactlyKeyReferences ==
    (pc = "find") =>
        /\ Len(graph) = Len(rawGraph)
        /\ raised = "none"
        /\ \A k \in Keys(rawGraph) :
              LET IsKey(v) == v \in Keys(rawGraph)
              IN  /\ Range(graph[k]) \subseteq Keys(rawGraph)
                  /\ graph[k] = SelectSeq(rawGraph[k], IsKey)

\* A pruned list that lost a dangling reference and kept a repeated one.
C8_Witness ==
    /\ pc = "find"
    /\ \E k \in Keys(rawGraph) :
          /\ Unknown \in Range(rawGraph[k])
          /\ Len(graph[k]) = 2
          /\ graph[k][1] = graph[k][2]

\* C9: when find_topological_graph_starts returns, its list holds exactly
\* the keys that occur in no dependency list (a self-reference counts), each
\* once, in the insertion order of the keys.
C9_StartsAreUnreferencedKeysInKeyOrder ==
    (pc = "sort") =>
        /\ Range(starts) = Unreferenced(graph)
        /\ \A i, j \in 1..Len(starts) : i < j => starts[i] < starts[j]

\* Two roots returned next to a key that only references itself.
C9_Witness ==
    /\ pc = "sort"
    /\ Len(starts) = 2
    /\ \E k \in Keys(graph) : Range(graph[k]) = {k}

\* C10 (as claimed): whenever sort_data_topological(split=True) returns, for
\* a batch of any size, it returns two tables that hold every input row in
\* exactly one of them.
C10_SplitReturnsPartition ==
    (pc = "returned_split" /\ raised = "none") =>
        /\ ret.kind = "pair"
        /\ Names(ret.in_calc_tree.rows) \cap Names(ret.independent.rows) = {}
        /\ Names(ret.in_calc_tree.rows) \cup Names(ret.independent.rows)
              = Names(input.rows)
        /\ Len(ret.in_calc_tree.rows) + Len(ret.independent.rows)
              = Len(input.rows)

\* The names of the rows of the batch that are flagged as calculations: the
\* is_calculation column where the input has one, else the rows whose formula
\* is not null.
Flagged(t) ==
    { t.rows[i].name : i \in { j \in 1..Len(t.rows) :
          IF "is_calculation" \in t.cols THEN t.rows[j].is_calculation
          ELSE ~t.rows[j].formula.null } }

\* The names of rows of the batch that the formula of some flagged row
\* mentions: the names found in the pruned dependency lists.
ReferencedByFlagged(t) ==
    UNION { Range(t.rows[i].formula.text) \cap Names(t.rows) :
            i \in { j \in 1..Len(t.rows) : t.rows[j].name \in Flagged(t) } }

\* C11: sort_data_topological(split=True) on more than one row places a row
\* in the in-tree partition exactly when it is flagged as a calculation or
\* its name is in the pruned dependency list of some row (which only flagged
\* rows have), and every other row in the independent partition.
C11_InTreeIffFlaggedOrReferenced ==
    (pc = "returned_split" /\ raised = "none" /\ Len(input.rows) > 1) =>
        /\ Names(ret.in_calc_tree.rows)
              = Flagged(input) \cup ReferencedByFlagged(input)
        /\ Names(ret.independent.rows)
              = Names(input.rows) \ (Flagged(input) \cup ReferencedByFlagged(input))
        /\ ReferencedByFlagged(input) = UNION { Range(graph[k]) : k \in Keys(graph) }

\* A split in which an unflagged row is in the tree because a flagged row
\* references it, while a row that only an unflagged row references is
\* independent.
C11_Witness ==
    /\ pc = "returned_split" /\ raised = "none" /\ Len(input.rows) > 1
    /\ \E a \in Names(ret.in_calc_tree.rows) : a \notin Flagged(input)
    /\ \E b \in Names(ret.independent.rows) :
          \E i \in 1..Len(input.rows) :
              /\ input.rows[i].name \notin Flagged(input)
              /\ b \in Range(input.rows[i].formula.text)

\* C12 (as claimed): in the in-tree partition that
\* sort_data_topological(split=True) returns for a batch whose pruned graph
\* is acyclic, every row stands after every row of the batch that its
\* formula references (the references the graph holds).
C12_SplitInTreeDependenciesFirst ==
    (pc = "returned_split" /\ raised = "none" /\ Len(input.rows) > 1
        /\ Acyclic(graph)) =>
        \A e \in Edges(graph) :
            /\ PositionOf(ret.in_calc_tree.rows, e[2]) > 0
            /\ PositionOf(ret.in_calc_tree.rows, e[2])
                   < PositionOf(ret.in_calc_tree.rows, e[1])

\* The rows of part stand in the order in which rows holds them.
KeepsOrderOf(part, rows) ==
    \A i, j \in 1..Len(part) :
        i < j => PositionOf(rows, part[i].name) < PositionOf(rows, part[j].name)

\* C13: in sort_data_topological(split=True), the rows of each of the two
\* returned partitions stand in the relative order they had in the input.
C13_PartitionsKeepInputOrder ==
    (pc = "returned_split" /\ raised = "none" /\ Len(input.rows) > 1) =>
        /\ KeepsOrderOf(ret.in_calc_tree.rows, input.rows)
        /\ KeepsOrderOf(ret.independent.rows, input.rows)

\* A split whose in-tree partition holds a flagged row in front of a row it
\* references, and whose independent partition holds a row.
C13_Witness ==
    /\ pc = "returned_split" /\ raised = "none"
    /\ Len(input.rows) > 1
    /\ Len(ret.in_calc_tree.rows) >= 2
    /\ Len(ret.independent.rows) >= 1
    /\ \E e \in Edges(graph) : e[1] < e[2]

\* C14: for an acyclic graph and its root list, handed over as a fresh list
\* on each call, iterative_topological_sort with reverse=True returns the
\* list it returns with reverse=False read back to front; the list the
\* call returned is the one of these that its reverse argument selects.
C14_ReversedIsExactReverse ==
    (pc = "returned" /\ Acyclic(graph)) =>
        LET roots == FindTopologicalGraphStarts(graph).starts
            forward == IterativeTopologicalSort(graph, roots, FALSE)
            backward == IterativeTopologicalSort(graph, roots, TRUE)
        IN  /\ backward = Reverse(forward)
            /\ Len(backward) = Len(forward)
            /\ result = IF reverse THEN backward ELSE forward

\* A reversed sort of three keys, one of which was unwound into order.
C14_Witness ==
    /\ pc = "returned" /\ reverse /\ Acyclic(graph)
    /\ Len(result) >= 3
    /\ Len(st.order) >= 1
    /\ Edges(graph) # {}

\* C15 (as claimed): whenever the designated formula column is not a column
\* of the input table, for a batch of any number of rows, 0 and 1 included,
\* sort_data_topological raises the missing-column error (ValueError),
\* returns nothing and has built no graph.
C15_MissingFormulaColumnAlwaysRaises ==
    (pc \in {"returned", "returned_split"} /\ "formula" \notin input.cols) =>
        /\ raised = "ValueError"
        /\ ret = NoReturn
        /\ rawGraph = <<>> /\ graph = <<>>

\* sort_data_topological has been called from check_and_sort_formula_columns.
SortInvoked ==
    \/ pc = "sorting"
    \/ ret # NoReturn
    \/ raised \in {"ValueError", "TypeError", "InvalidCalculationGraphException"}

\* C16: check_and_sort_formula_columns raises
\* MultipleFormulaColumnException exactly when more than one column name
\* contains 'formula', and then never calls sort_data_topological; with one
\* such column it calls the sort only when the column has a value that is
\* not null (and then it does); with none it does nothing.
C16_MultipleFormulaColumnsRaiseBeforeSort ==
    (pc # "check") =>
        LET count == Cardinality({ c \in input.cols : ContainsFormula(c) })
        IN  /\ (raised = "MultipleFormulaColumnException") <=> (count > 1)
            /\ count > 1 =>
                  pc = "raised" /\ ~SortInvoked /\ df = input
            /\ SortInvoked => (count = 1 /\ AnyFormulaNotNa(input))
            /\ (count = 1 /\ AnyFormulaNotNa(input)) => SortInvoked
            /\ count = 0 =>
                  pc = "checked" /\ raised = "none" /\ ~SortInvoked /\ df = input

\* The exception raised for a table of two formula columns in which a row
\* references a later row, which the sort would have had to move.
C16_Witness ==
    /\ pc = "raised"
    /\ raised = "MultipleFormulaColumnException"
    /\ Len(input.rows) > 1
    /\ \E i \in 1..Len(input.rows) :
          \E b \in Mentioned(input.rows[i]) : b > input.rows[i].name

\* The graph of the CSV file cannot be built: more than one formula column,
\* or a graph with keys of which none is a root.
GraphConstructionFails ==
    \/ Cardinality(FormulaCols(input)) > 1
    \/ Len(graph) > 0 /\ Unreferenced(graph) = {}

\* C17: when graph construction fails inside process_csv_generic, the
\* exception leaves process_csv_generic: in sequential and in multithreaded
\* mode operation_callable is invoked for no row, no row is marked and no
\* result CSV is saved.
C17_GraphFailureAbortsBatch ==
    (pc # "read") =>
        /\ GraphConstructionFails =>
              raised \in {"MultipleFormulaColumnException",
                          "InvalidCalculationGraphException"}
        /\ raised # "none" =>
              /\ pc = "raised"
              /\ ret = NoReturn
              /\ \A i \in 1..Len(df.rows) :
                    /\ thr[i] = "unstarted"
                    /\ ~df.rows[i].processed
                    /\ df.rows[i].processed_error = ""

\* A multithreaded run aborted because the two rows of the file reference
\* each other.
C17_Witness ==
    /\ pc = "raised" /\ mt
    /\ raised = "InvalidCalculationGraphException"
    /\ Len(df.rows) = 2
    /\ Edges(graph) = {<<1, 2>>, <<2, 1>>}

\* The rows whose invocation of operation_callable is executing.
Running == { i \in 1..Len(df.rows) : thr[i] = "running" }

\* C18: in upload_models_from_df_multithreaded, at every moment at most
\* CONCURRENT_REQUESTS invocations of operation_callable are executing, for
\* any number of rows and any interleaving, also when invocations raise; the
\* semaphore holds the permits that are not taken.
C18_AtMostConcurrentRequestsRunning ==
    mt =>
        /\ Cardinality(Running) <= CONCURRENT_REQUESTS
        /\ permits = CONCURRENT_REQUESTS - Cardinality(Running)

\* Every permit is taken, a further thread waits at the semaphore, and one
\* of the rows before it has failed and given its permit back.
C18_Witness ==
    /\ mt /\ pc = "threads"
    /\ Cardinality(Running) = CONCURRENT_REQUESTS
    /\ \E i \in 1..Len(df.rows) : thr[i] = "waiting"
    /\ \E i \in 1..Len(df.rows) :
          thr[i] = "released" /\ df.rows[i].processed_error = "error"

\* The cells of a row that no invocation has marked, that a normal return
\* has marked, that a failure has marked.
Unmarked(row) == ~row.processed /\ row.processed_error = ""

MarkedDone(row) == row.processed /\ row.processed_error = ""

MarkedFailed(row) == ~row.processed /\ row.processed_error = "error"

\* The invocation of operation_callable on row i ends in this step,
\* returning (ok) or raising.
Ends(i, ok) == Complete(i, ok) \/ (cursor = i /\ UploadRow(ok))

\* C19: in both upload functions, the step in which the invocation on a row
\* ends marks that row and no other: flag True and empty error cell when it
\* returned, flag still False and the error text when it raised; the upload
\* goes on either way.  A row is unmarked until its invocation has ended,
\* the upload function raises nothing, and it returns only when the
\* invocation on every row has ended.
C19_RowFailureContained ==
    /\ [](/\ raised = "none"
          /\ \A i \in 1..Len(df.rows) :
                /\ thr[i] \in {"unstarted", "waiting", "running"}
                      => Unmarked(df.rows[i])
                /\ thr[i] \in {"released", "finished"}
                      => MarkedDone(df.rows[i]) \/ MarkedFailed(df.rows[i])
          /\ pc = "saved" => \A i \in 1..Len(df.rows) : thr[i] = "finished")
    /\ [][\A i \in 1..Len(df.rows), ok \in BOOLEAN :
             Ends(i, ok) =>
                /\ IF ok THEN MarkedDone(df'.rows[i])
                   ELSE MarkedFailed(df'.rows[i])
                /\ \A j \in 1..Len(df.rows) :
                      j # i => df'.rows[j] = df.rows[j] /\ thr'[j] = thr[j]
                /\ pc' = pc /\ raised' = "none"]_vars

\* A multithreaded upload that has returned, in which a row failed and a
\* later row and an earlier row succeeded.
C19_Witness ==
    /\ pc = "saved" /\ mt
    /\ \E i, j, k \in 1..Len(df.rows) :
          /\ i < j /\ j < k
          /\ MarkedDone(df.rows[i])
          /\ MarkedFailed(df.rows[j])
          /\ MarkedDone(df.rows[k])

\* The tables that sort_data_topological returned.
ReturnedTables ==
    IF ret.kind = "pair" THEN {ret.in_calc_tree, ret.independent}
    ELSE IF ret.kind = "table" THEN {ret.table}
    ELSE {}

\* C20 (as claimed): every table that sort_data_topological returns, in
\* both split modes and whether or not the input has the is_calculation
\* column, has exactly the columns of the table that was passed in.
C20_ReturnedColumnsAreInputColumns ==
    (pc \in {"returned", "returned_split"} /\ raised = "none") =>
        \A t \in ReturnedTables :
            /\ t.cols = input.cols
            /\ \A i \in 1..Len(t.rows) : DOMAIN t.rows[i] = input.cols

\* The occurrences of "[NAME]" in text, NAME a non-empty run of characters
\* of [A-Z0-9_]: the pairs of the indices of their brackets.
Occurrences(text) ==
    { p \in (1..Len(text)) \X (1..Len(text)) :
        /\ text[p[1]] = "[" /\ text[p[2]] = "]"
        /\ p[2] > p[1] + 1
        /\ \A k \in (p[1] + 1)..(p[2] - 1) : text[k] \in NameChars }

\* The names of a set of occurrences, left to right.
RECURSIVE NamesLeftToRight(_, _)
NamesLeftToRight(text, occ) ==
    IF occ = {} THEN <<>>
    ELSE LET first == CHOOSE p \in occ : \A q \in occ : p[1] <= q[1]
         IN  <<SubSeq(text, first[1] + 1, first[2] - 1)>>
             \o NamesLeftToRight(text, occ \ {first})

\* C21 (as claimed): extract_formula_children gives every row a reference
\* list: the empty list for a row that is not flagged as a calculation,
\* whatever its formula holds; for a flagged row the names found in the
\* formula as "[NAME]", left to right, repeats kept, with no entry for
\* empty brackets or bracketed text with other characters.
C21_EveryRowGetsItsReferenceList ==
    (pc = "extracted") =>
        /\ Len(ret.table.rows) = Len(input.rows)
        /\ \A i \in 1..Len(input.rows) :
              LET row == input.rows[i]
                  cell == ret.table.rows[i].children
              IN  /\ ~cell.null
                  /\ ~CalculationRow(input, row) => cell.list = <<>>
                  /\ (CalculationRow(input, row) /\ ~row.formula.null) =>
                        cell.list = NamesLeftToRight(row.formula.text,
                                        Occurrences(row.formula.text))

\* C22 (as claimed): when the input table has no is_calculation column,
\* sort_data_topological does not treat a row whose formula is null or
\* empty as a calculation: the row is not flagged, has no dependencies, and
\* in split mode is independent unless the formula of a flagged row
\* references it.
C22_EmptyFormulaIsNotACalculation ==
    (/\ pc = "returned_split" /\ raised = "none" /\ Len(input.rows) > 1
     /\ "is_calculation" \notin input.cols) =>
        \A i \in 1..Len(input.rows) :
            (input.rows[i].formula.null \/ input.rows[i].formula.text = <<>>) =>
                /\ ~df.rows[i].is_calculation
                /\ graph[i] = <<>>
                /\ (\A k \in Keys(graph) : i \notin Range(graph[k])) =>
                      i \in Names(ret.independent.rows)

\* The dependency-list entries of the keys 1..k that are not in seen, plus
\* one for each such key: what the worklist can still receive.
RECURSIVE Pending(_, _, _)
Pending(g, seen, k) ==
    IF k = 0 THEN 0
    ELSE Pending(g, seen, k - 1) + (IF k \in seen THEN 0 ELSE Len(g[k]) + 1)

\* The number of entries of all the dependency lists of the graph.
TotalEdges(g) == Pending(g, {}, Len(g)) - Len(g)

\* C23: iterative_topological_sort terminates on every graph whose
\* dependency lists hold keys only, cycles and self-references included:
\* every call returns; every iteration takes an entry off the worklist and
\* adds the dependency list of a node only when that node had not been
\* seen, so the worklist plus what it can still receive shrinks with every
\* iteration and the worklist never holds more than |starts| plus the
\* number of edges entries.
C23_SortTerminates ==
    /\ (pc = "sort") ~> (pc = "returned")
    /\ [](pc = "loop" => Len(st.q) <= Len(input) + TotalEdges(graph))
    /\ [][(pc = "loop" /\ pc' = "loop") =>
             Len(st'.q) + Pending(graph, st'.seen, Len(graph))
                < Len(st.q) + Pending(graph, st.seen, Len(graph))]_vars

\* A sort that returned for a graph in which two nodes reference each
\* other, both of them sorted.
C23_Witness ==
    /\ pc = "returned"
    /\ \E a, b \in Keys(graph) :
          /\ a # b /\ b \in Range(graph[a]) /\ a \in Range(graph[b])
          /\ {a, b} \subseteq Range(result)

\* C27: for every graph, cyclic or not, and every start list,
\* iterative_topological_sort returns exactly the nodes that the start
\* nodes reach along dependency edges (the start nodes included), each
\* once; a node that no start node reaches is absent.
C27_ResultIsReachableSetOnce ==
    (pc = "returned") =>
        /\ Range(result) = ReachWithin(graph, Range(input), Len(graph))
        /\ \A k \in Range(result) : Count(result, k) = 1

\* A sort whose result leaves out two nodes that reference each other and
\* that the start list does not reach.
C27_Witness ==
    /\ pc = "returned"
    /\ result # <<>>
    /\ \E a, b \in Keys(graph) \ Range(result) :
          a # b /\ b \in Range(graph[a]) /\ a \in Range(graph[b])

\* C28: iterative_topological_sort never modifies the graph, and it uses
\* the list passed as starts as its worklist: during the loop that list is
\* the worklist, when the call returns it is empty, and a second call with
\* the same list returns the empty ordering.
C28_GraphKeptStartsConsumed ==
    /\ [][graph' = graph]_vars
    /\ [](pc = "loop" => starts = st.q)
    /\ [](pc = "returned" =>
             /\ starts = <<>>
             /\ IterativeTopologicalSort(graph, starts, reverse) = <<>>)

\* A call that returned an ordering of two nodes for a start list of one
\* node and left the list empty.
C28_Witness ==
    /\ pc = "returned"
    /\ Len(input) = 1
    /\ Len(result) >= 2
    /\ starts = <<>>

\* C30: at every step of iterative_topological_sort, for every graph, the
\* stack is a path of the graph (each element is in the dependency list of
\* the element below it), the stack and the order accumulator hold no node
\* twice and share none, and together they hold exactly the seen nodes.
C30_StackIsOpenPath ==
    (pc \in {"loop", "returned"}) =>
        /\ \A i \in 2..Len(st.stack) :
              st.stack[i] \in Range(graph[st.stack[i - 1]])
        /\ Cardinality(Range(st.stack)) = Len(st.stack)
        /\ Cardinality(Range(st.order)) = Len(st.order)
        /\ Range(st.stack) \cap Range(st.order) = {}
        /\ Range(st.stack) \cup Range(st.order) = st.seen

\* A step of the loop at which the stack holds a path of two nodes that
\* reference each other while an unwound node sits in order.
C30_Witness ==
    /\ pc = "loop"
    /\ Len(st.stack) >= 2
    /\ Len(st.order) >= 1
    /\ st.stack[1] \in Range(graph[st.stack[2]])

\* The steps a worker thread takes, in their order.
ThreadSteps ==
    { <<"unstarted", "waiting">>, <<"waiting", "running">>,
      <<"running", "released">>, <<"released", "finished">> }

\* C24: upload_models_from_df_multithreaded invokes operation_callable
\* exactly once for every row (every thread enters and leaves the
\* invocation once, in order), returns only after every invocation has
\* ended and the progress counter has been advanced for every row, with
\* every permit given back; and, invocations ending, it returns for any
\* number of rows, whatever the invocations do.
C24_ThreadedUploadCompletes ==
    /\ (mt /\ pc = "threads") ~> (pc = "saved")
    /\ []((mt /\ pc = "saved") =>
             /\ \A i \in 1..Len(df.rows) :
                   /\ thr[i] = "finished"
                   /\ df.rows[i].processed \/ df.rows[i].processed_error # ""
             /\ permits = CONCURRENT_REQUESTS)
    /\ [][mt => \A i \in 1..Len(df.rows) :
                   thr'[i] # thr[i] => <<thr[i], thr'[i]>> \in ThreadSteps]_vars

\* A multithreaded upload of more rows than permits that returned although
\* every invocation raised.
C24_Witness ==
    /\ mt /\ pc = "saved"
    /\ Len(df.rows) > CONCURRENT_REQUESTS
    /\ \A i \in 1..Len(df.rows) : df.rows[i].processed_error = "error"

\* Position of the row with item name code in rows, 0 when absent.
PositionOfCode(rows, code) ==
    IF \E i \in 1..Len(rows) : rows[i].code = code
    THEN CHOOSE i \in 1..Len(rows) : rows[i].code = code
    ELSE 0

\* C25 (as claimed): sort_data_topological(split=False) with item_col set
\* to a column other than 'name', on more than one row with an acyclic
\* graph, returns every input row, each after every row that the graph
\* makes it depend on, the rows being told apart by the values of item_col.
C25_ItemColumnIsHonoured ==
    (pc = "returned" /\ Len(input.rows) > 1 /\ Acyclic(graph)
        /\ raised \notin {"TypeError", "InvalidCalculationGraphException"}) =>
        /\ raised = "none"
        /\ Len(ret.table.rows) = Len(input.rows)
        /\ \A i \in 1..Len(input.rows) :
              PositionOfCode(ret.table.rows, input.rows[i].code) > 0
        /\ \A e \in Edges(graph) :
              PositionOfCode(ret.table.rows, e[2])
                 < PositionOfCode(ret.table.rows, e[1])

\* C29 (as claimed): a call of sort_data_topological leaves the caller's
\* table with the rows it had, in the order they had, every column it had
\* holding the values it held; what the table gains is the is_calculation
\* column when it had none and, in split mode only, calculation_status,
\* which is on it whenever the call returned its two parts.
C29_CallerTableOnlyGainsColumns ==
    pc \in {"returned", "returned_split"} =>
        /\ Len(df.rows) = Len(input.rows)
        /\ input.cols \subseteq df.cols
        /\ \A i \in 1..Len(input.rows) :
              \A c \in input.cols : df.rows[i][c] = input.rows[i][c]
        /\ df.cols \ input.cols \subseteq {"is_calculation", "calculation_status"}
        /\ "calculation_status" \in df.cols \ input.cols => pc = "returned_split"
        /\ (pc = "returned_split" /\ ret.kind = "pair") =>
              "calculation_status" \in df.cols

\* Positions in wire of the requests sent so far.
RequestsSent == { i \in 1..Len(wire) : wire[i].op = "request" }

\* C26: get_data with retries = n >= 1 sends at most n requests; a request
\* that succeeds is the last thing it does and its result is returned; a
\* failure with a requests error at attempt k < n - 1 is followed by a sleep
\* of 2^k seconds and then by attempt k + 1; the failure of attempt n - 1 is
\* followed by nothing, and is what get_data raises.
C26_RetriesWithBackoff ==
    (st.retries >= 1 /\ pc # "get_data") =>
        /\ Cardinality(RequestsSent) <= st.retries
        /\ \A i \in RequestsSent :
              LET k == wire[i].attempt
                  last == i = Len(wire)
              IN  /\ k = Cardinality({ j \in RequestsSent : j < i })
                  /\ wire[i].outcome = "Data" =>
                        /\ last
                        /\ pc = "get_data_returned"
                        /\ ret = [kind |-> "series", attempt |-> k]
                  /\ (wire[i].caught /\ k < st.retries - 1) =>
                        /\ raised = "none" \/ ~last
                        /\ last => pc = "backoff"
                        /\ ~last => wire[i + 1] = [op |-> "sleep", delay |-> 2 ^ k]
                        /\ i + 1 = Len(wire) => pc = "request"
                        /\ i + 1 < Len(wire) =>
                              /\ wire[i + 2].op = "request"
                              /\ wire[i + 2].attempt = k + 1
                  /\ (wire[i].caught /\ k = st.retries - 1) =>
                        /\ last
                        /\ pc = "get_data_raised"
                        /\ raised = wire[i].outcome
        /\ \A i \in 1..Len(wire) :
              wire[i].op = "sleep" =>
                 i > 1 /\ wire[i - 1].op = "request" /\ wire[i - 1].caught

\* Four attempts failed, the last one differently from the ones before, with
\* sleeps of 1, 2 and 4 seconds between them, and the last failure is raised.
C26_Witness ==
    /\ pc = "get_data_raised"
    /\ st.retries = 4
    /\ Len(wire) = 7
    /\ wire[2].delay = 1 /\ wire[4].delay = 2 /\ wire[6].delay = 4
    /\ wire[5].outcome = "ConnectionError"
    /\ wire[7].outcome = "HTTPError"
    /\ raised = "HTTPError"

====
